---- MODULE Spec2Model ----
\* Model of progress_monitor.py: the lock-protected ProgressMonitor, the
\* MonitoredTqdm interceptor, patch_tqdm / unpatch_tqdm and the
\* run_with_progress polling generator with its worker thread.
\*
\* Every ProgressMonitor method runs under self.lock, so each method call is
\* one atomic step.  Threads (one consumer, one worker per run) interleave
\* between method calls.
EXTENDS Integers, Sequences, FiniteSets, TLC

\* ---------------------------------------------------------------- bounds
MaxTotal == 1
MaxStep == 2
MaxRelays == 1

\* two runs, used one after the other by the consumer
Runs == {1, 2}
\* total=None is turned into 0 by _get_total, so 0 stands for "unknown" too
Totals == {0, MaxTotal}
\* tqdm.update accepts any n, negative included; the position of a bar is
\* followed up to one past its total, so at most up to MaxN
MaxN == MaxTotal + 1
Steps == (-1..MaxStep) \ {0}
Descs == {"OCR"}
\* "ValueError" derives from Exception; "SystemExit" derives from
\* BaseException only
ErrorKinds == {"ValueError", "SystemExit"}

VARIABLES
    global_monitor,   \* _global_monitor: 0 is None, else the instance's identity
    monitors_created, \* number of ProgressMonitor() constructions so far
    tqdm_tqdm,        \* what the symbol tqdm.tqdm is bound to
    progress,         \* ProgressMonitor.progress
    exception,        \* ProgressMonitor._exception
    result,           \* ProgressMonitor._result
    gen,              \* per run: where the generator body stands ("started":
                      \* at the loop test after thread.start(); "check": at
                      \* the loop test after a sleep returned)
    gen_raised,       \* per run: the error the generator raised to the consumer
    final_progress,   \* per run: the generator's local final_progress
    event,            \* what the step just taken did, for the steps observed
    polled,           \* per run: the status of the first snapshot the loop
                      \* produced, as a set (empty before that snapshot)
    thread,           \* per run: the worker thread's state
    bar,              \* per run: the MonitoredTqdm instance the target drives
                      \* (sent: the current it forwarded last, -1 when none)
    outcome,          \* per run: how target_func ended
    writes,           \* per run: set_result/set_error calls made by the worker
    waiting,          \* per run: the generator is driven by run_and_wait
    rw_final,         \* per run: run_and_wait's local final_progress
    rw_returned       \* per run: what run_and_wait returned

vars == <<global_monitor, monitors_created, tqdm_tqdm, progress, exception,
          result, gen, gen_raised, final_progress, event, polled, thread,
          bar, outcome, writes, waiting, rw_final, rw_returned>>

monitor_vars == <<progress, exception, result>>
registry_vars == <<global_monitor, monitors_created, tqdm_tqdm>>
gen_vars == <<gen, gen_raised, final_progress, polled>>
worker_vars == <<thread, bar, outcome, writes>>
wait_vars == <<waiting, rw_final, rw_returned>>

\* ------------------------------------------------------------ values
NoException == [kind |-> "None", run |-> 0]
NoResult == [kind |-> "None", run |-> 0]
NoBar ==
    [exists |-> FALSE, n |-> 0, total |-> 0, desc |-> "", disable |-> FALSE,
     closed |-> FALSE, sent |-> -1]
NoOutcome == [kind |-> "none", value |-> NoResult, error |-> NoException]
NoSnapshot == [status |-> "none"]
NoEvent == [op |-> "none"]
NoReturn == [final_progress |-> NoSnapshot, result |-> NoResult, set |-> FALSE]

\* the error object a run's target raises: one object per (class, run)
Error(kind, r) == [kind |-> kind, run |-> r]
\* the object a run's target returns
Value(r) == [kind |-> "value", run |-> r]
InitError == [kind |-> "RuntimeError", run |-> 0]

\* isinstance(e, Exception), as tested by "except Exception"
IsException(e) == e.kind \in {"ValueError", "RuntimeError"}

\* truth value of "if exception:" -- None is falsy, exception objects truthy
Truthy(e) == e # NoException

Abs(x) == IF x < 0 THEN -x ELSE x

RECURSIVE GCD(_, _)
GCD(a, b) == IF b = 0 THEN a ELSE GCD(b, a % b)

\* an exact fraction num/den (den > 0) in lowest terms
Frac(num, den) ==
    LET g == GCD(Abs(num), den)
    IN  IF g = 0 THEN <<0, 1>> ELSE <<num \div g, den \div g>>

\* (current / total) * 100 if total > 0 else 0
Percentage(current, total) ==
    IF total > 0 THEN Frac(current * 100, total) ELSE <<0, 1>>

\* ------------------------------------------------------ ProgressMonitor
InitialProgress ==
    [current |-> 0, total |-> 0, percentage |-> <<0, 1>>, desc |-> "",
     status |-> "ready"]

\* a faulty update: the stored percentage is not recomputed
Monitor_update_stale(current, total, desc) ==
    [current |-> current, total |-> total,
     percentage |-> progress.percentage, desc |-> desc,
     status |-> "running"]

\* a faulty update: the dict is written key by key, not under the lock, and a
\* reader sees it before desc is written
Monitor_update_torn(current, total, desc) ==
    [current |-> current, total |-> total,
     percentage |-> Percentage(current, total), desc |-> progress.desc,
     status |-> "running"]

\* ProgressMonitor.update: the whole dict is replaced
Monitor_update(current, total, desc) ==
    [current |-> current, total |-> total,
     percentage |-> Percentage(current, total), desc |-> desc,
     status |-> "running"]

\* ProgressMonitor.get_progress: a copy of the dict
get_progress == progress

\* ProgressMonitor.set_error: only the status key of the dict p changes
set_error(p) == [p EXCEPT !.status = "error"]

\* a faulty reset: the stored error survives
reset_keeps_exception ==
    /\ progress' = InitialProgress
    /\ exception' = exception
    /\ result' = NoResult
    /\ event' = [op |-> "reset", progress |-> progress,
                 exception |-> exception, result |-> result]

\* ProgressMonitor.reset; the event keeps what the Monitor held before
reset ==
    /\ progress' = InitialProgress
    /\ exception' = NoException
    /\ result' = NoResult
    /\ event' = [op |-> "reset", progress |-> progress,
                 exception |-> exception, result |-> result]

\* --------------------------------------------------------------- Init
Init ==
    /\ global_monitor = 0
    /\ monitors_created = 0
    /\ tqdm_tqdm = "original_tqdm"
    /\ progress = InitialProgress
    /\ exception = NoException
    /\ result = NoResult
    /\ gen = [r \in Runs |-> "uncalled"]
    /\ gen_raised = [r \in Runs |-> NoException]
    /\ final_progress = [r \in Runs |-> NoSnapshot]
    /\ event = NoEvent
    /\ polled = [r \in Runs |-> {}]
    /\ thread = [r \in Runs |-> "unstarted"]
    /\ bar = [r \in Runs |-> NoBar]
    /\ outcome = [r \in Runs |-> NoOutcome]
    /\ writes = [r \in Runs |-> 0]
    /\ waiting = [r \in Runs |-> FALSE]
    /\ rw_final = [r \in Runs |-> NoSnapshot]
    /\ rw_returned = [r \in Runs |-> NoReturn]

GenActive(r) == gen[r] \notin {"uncalled", "done", "raised", "closed", "collected"}
ThreadAlive(r) == thread[r] = "running"

\* the run's generator has not been dropped: what its worker does is recorded
Recorded(r) == gen[r] # "collected"

\* no generator is being iterated and no worker thread is alive
Idle == \A r \in Runs : ~GenActive(r) /\ ~ThreadAlive(r)

\* ------------------------------------------------------ Patch Registry
\* a faulty patch_tqdm: a new ProgressMonitor at every call
patch_tqdm_fresh ==
    /\ event' = [op |-> "patch_tqdm", again |-> global_monitor # 0]
    /\ Idle
    /\ monitors_created' = monitors_created + 1
    /\ global_monitor' = monitors_created + 1
    /\ progress' = InitialProgress
    /\ exception' = NoException
    /\ result' = NoResult
    /\ tqdm_tqdm' = "MonitoredTqdm"
    /\ UNCHANGED <<gen_vars, worker_vars>>
    /\ UNCHANGED wait_vars

\* patch_tqdm, called by the consumer between runs
patch_tqdm ==
    /\ event' = [op |-> "patch_tqdm", again |-> global_monitor # 0]
    /\ Idle
    /\ IF global_monitor = 0
       THEN /\ monitors_created' = monitors_created + 1
            /\ global_monitor' = monitors_created + 1
            /\ progress' = InitialProgress
            /\ exception' = NoException
            /\ result' = NoResult
       ELSE UNCHANGED <<monitors_created, global_monitor, monitor_vars>>
    /\ tqdm_tqdm' = "MonitoredTqdm"
    /\ UNCHANGED <<gen_vars, worker_vars>>
    /\ UNCHANGED wait_vars

\* a faulty unpatch_tqdm: the Monitor is reset along with the symbol
unpatch_tqdm_resets ==
    /\ event' = [op |-> "unpatch_tqdm", global_monitor |-> global_monitor,
                 progress |-> progress, exception |-> exception,
                 result |-> result]
    /\ Idle
    /\ tqdm_tqdm' = "original_tqdm"
    /\ progress' = InitialProgress
    /\ exception' = NoException
    /\ result' = NoResult
    /\ UNCHANGED <<global_monitor, monitors_created, gen_vars, worker_vars>>
    /\ UNCHANGED wait_vars

\* unpatch_tqdm, called by the consumer between runs; the event keeps what
\* the registry and the Monitor held before
unpatch_tqdm ==
    /\ event' = [op |-> "unpatch_tqdm", global_monitor |-> global_monitor,
                 progress |-> progress, exception |-> exception,
                 result |-> result]
    /\ Idle
    /\ tqdm_tqdm' = "original_tqdm"
    /\ UNCHANGED <<global_monitor, monitors_created, monitor_vars, gen_vars,
                   worker_vars>>
    /\ UNCHANGED wait_vars

\* reset_global_monitor, called between runs
reset_global_monitor ==
    /\ Idle
    /\ IF global_monitor # 0 THEN reset
       ELSE event' = NoEvent /\ UNCHANGED monitor_vars
    /\ UNCHANGED <<registry_vars, gen_vars, worker_vars>>
    /\ UNCHANGED wait_vars

\* ------------------------------------------- run_with_progress (generator)
\* Calling run_with_progress only creates the generator object; the body runs
\* at the first next().  The consumer drives one generator at a time and
\* uses the runs in order; the generator of the run before is dropped, and
\* with it the record of what it yielded.
NewGenerator(r) ==
    /\ event' = NoEvent
    /\ gen[r] = "uncalled"
    /\ \A q \in Runs : q < r => gen[q] # "uncalled"
    /\ \A q \in Runs : ~GenActive(q)
    /\ gen' = [q \in Runs |-> IF q = r THEN "created"
                              ELSE IF gen[q] = "uncalled" THEN "uncalled"
                              ELSE "collected"]
    /\ polled' = [q \in Runs |-> {}]
    /\ gen_raised' = [q \in Runs |-> NoException]
    /\ outcome' = [q \in Runs |-> NoOutcome]
    /\ writes' = [q \in Runs |-> 0]
    /\ rw_final' = [q \in Runs |-> NoSnapshot]
    /\ rw_returned' = [q \in Runs |-> NoReturn]
    /\ UNCHANGED <<registry_vars, monitor_vars, final_progress, thread, bar>>

\* the consumer calls run_with_progress and iterates the generator itself
run_with_progress(r) ==
    /\ NewGenerator(r)
    /\ waiting' = [q \in Runs |-> FALSE]

\* the consumer calls run_and_wait, which calls run_with_progress and
\* iterates the generator to its end
run_and_wait(r) ==
    /\ NewGenerator(r)
    /\ waiting' = [q \in Runs |-> q = r]

\* run_and_wait's loop body, "final_progress = progress".  The loop overwrites
\* final_progress at every snapshot and reads it only after the generator
\* has ended, which it does only after the yield of its last line: the value
\* kept is the one of that yield.
Received(r, snapshot) ==
    /\ rw_final' = IF waiting[r] THEN [rw_final EXCEPT ![r] = snapshot]
                   ELSE rw_final
    /\ UNCHANGED <<waiting, rw_returned>>

\* final_progress.get('result'): the key's value, None when it is absent
get_result_key(snapshot) ==
    IF "result" \in DOMAIN snapshot THEN snapshot.result ELSE NoResult

\* run_and_wait after its loop ended: "result = final_progress.get('result')
\* if final_progress else None; return final_progress, result"
run_and_wait_returns(r) ==
    /\ event' = NoEvent
    /\ waiting[r]
    /\ gen[r] = "done"
    /\ ~rw_returned[r].set
    /\ rw_returned' =
           [rw_returned EXCEPT ![r] =
                [final_progress |-> rw_final[r],
                 result |-> IF rw_final[r] # NoSnapshot
                            THEN get_result_key(rw_final[r]) ELSE NoResult,
                 set |-> TRUE]]
    /\ UNCHANGED <<registry_vars, monitor_vars, gen_vars, worker_vars,
                   waiting, rw_final>>

\* "yield snapshot": the consumer receives snapshot; first tells whether it
\* is the first snapshot of the run
Yield(r, snapshot) ==
    event' = [op |-> "yield", run |-> r, snapshot |-> snapshot,
              first |-> polled[r] = {}]

\* a faulty start: the worker is spawned without the None test
GenStart_unchecked(r) ==
    /\ gen[r] = "created"
    /\ reset
    /\ thread' = [thread EXCEPT ![r] = "running"]
    /\ gen' = [gen EXCEPT ![r] = "started"]
    /\ UNCHANGED <<registry_vars, gen_raised, final_progress, polled, bar,
                   outcome, writes>>
    /\ UNCHANGED wait_vars

\* first next(): the None test, reset() and Thread(...).start()
GenStart(r) ==
    /\ gen[r] = "created"
    /\ IF global_monitor = 0
       THEN /\ gen' = [gen EXCEPT ![r] = "raised"]
            /\ gen_raised' = [gen_raised EXCEPT ![r] = InitError]
            /\ event' = NoEvent
            /\ UNCHANGED <<monitor_vars, thread>>
       ELSE /\ reset
            /\ thread' = [thread EXCEPT ![r] = "running"]
            /\ gen' = [gen EXCEPT ![r] = "started"]
            /\ UNCHANGED gen_raised
    /\ UNCHANGED <<registry_vars, final_progress, polled, bar, outcome,
                   writes>>
    /\ UNCHANGED wait_vars

\* a faulty loop: "while True", the snapshots go on after the worker ended
GenPoll_forever(r) ==
    /\ gen[r] \in {"started", "check"}
    /\ Yield(r, get_progress)
    /\ UNCHANGED wait_vars
    /\ polled' = [polled EXCEPT ![r] = IF @ = {} THEN {get_progress.status}
                                        ELSE @]
    /\ gen' = [gen EXCEPT ![r] = "yielded"]
    /\ UNCHANGED <<registry_vars, monitor_vars, gen_raised, final_progress,
                   worker_vars>>

\* "while thread.is_alive(): progress = get_progress(); yield progress"
GenPoll(r) ==
    /\ gen[r] \in {"started", "check"}
    /\ ThreadAlive(r)
    /\ Yield(r, get_progress)
    /\ UNCHANGED wait_vars
    /\ polled' = [polled EXCEPT ![r] = IF @ = {} THEN {get_progress.status}
                                        ELSE @]
    /\ gen' = [gen EXCEPT ![r] = "yielded"]
    /\ UNCHANGED <<registry_vars, monitor_vars, gen_raised, final_progress,
                   worker_vars>>

\* the consumer's next() resumes the generator after a yield
GenNext(r) ==
    /\ event' = NoEvent
    /\ gen[r] \in {"yielded", "yielded_final"}
    /\ gen' = [gen EXCEPT ![r] = IF gen[r] = "yielded" THEN "sleeping"
                                                     ELSE "done"]
    /\ UNCHANGED <<registry_vars, monitor_vars, gen_raised, final_progress,
                   polled, worker_vars>>
    /\ UNCHANGED wait_vars

\* time.sleep(poll_interval) returns
GenWake(r) ==
    /\ event' = NoEvent
    /\ gen[r] = "sleeping"
    /\ gen' = [gen EXCEPT ![r] = "check"]
    /\ UNCHANGED <<registry_vars, monitor_vars, gen_raised, final_progress,
                   polled, worker_vars>>
    /\ UNCHANGED wait_vars

\* the loop ends once is_alive() is False; thread.join();
\* "exception = get_exception(); if exception: raise exception"
GenGetException(r) ==
    /\ event' = NoEvent
    /\ gen[r] \in {"started", "check"}
    /\ ~ThreadAlive(r)
    /\ IF Truthy(exception)
       THEN /\ gen' = [gen EXCEPT ![r] = "raised"]
            /\ gen_raised' = [gen_raised EXCEPT ![r] = exception]
       ELSE /\ gen' = [gen EXCEPT ![r] = "get_final"]
            /\ UNCHANGED gen_raised
    /\ UNCHANGED <<registry_vars, monitor_vars, final_progress, polled,
                   worker_vars>>
    /\ UNCHANGED wait_vars

\* a faulty final step: get_progress hands out the Monitor's own dict, so the
\* status written into it is written into the Monitor
GenGetFinal_aliased(r) ==
    /\ event' = NoEvent
    /\ gen[r] = "get_final"
    /\ progress' = [progress EXCEPT !.status = "completed"]
    /\ final_progress' =
           [final_progress EXCEPT ![r] =
                [get_progress EXCEPT !.status = "completed"]]
    /\ gen' = [gen EXCEPT ![r] = "get_result"]
    /\ UNCHANGED <<registry_vars, exception, result, gen_raised, polled,
                   worker_vars, wait_vars>>

\* "final_progress = get_progress(); final_progress['status'] = 'completed'"
GenGetFinal(r) ==
    /\ event' = NoEvent
    /\ gen[r] = "get_final"
    /\ final_progress' =
           [final_progress EXCEPT ![r] =
                [get_progress EXCEPT !.status = "completed"]]
    /\ gen' = [gen EXCEPT ![r] = "get_result"]
    /\ UNCHANGED <<registry_vars, monitor_vars, gen_raised, polled,
                   worker_vars>>
    /\ UNCHANGED wait_vars

\* "final_progress['result'] = get_result(); yield final_progress"
GenGetResult(r) ==
    /\ gen[r] = "get_result"
    /\ Yield(r, final_progress[r] @@ [result |-> result])
    /\ Received(r, final_progress[r] @@ [result |-> result])
    /\ final_progress' = [final_progress EXCEPT ![r] = NoSnapshot]
    /\ gen' = [gen EXCEPT ![r] = "yielded_final"]
    /\ UNCHANGED <<registry_vars, monitor_vars, gen_raised, polled,
                   worker_vars>>

\* the consumer stops iterating: the generator is closed at a yield (or
\* before it ever ran); the worker thread is left running
GenClose(r) ==
    /\ event' = NoEvent
    /\ gen[r] \in {"created", "yielded", "yielded_final"}
    /\ ~waiting[r]
    /\ gen' = [gen EXCEPT ![r] = "closed"]
    /\ UNCHANGED <<registry_vars, monitor_vars, gen_raised, final_progress,
                   polled, worker_vars>>
    /\ UNCHANGED wait_vars

\* ------------------------------------------------ MonitoredTqdm (worker)
\* tqdm's own disable flag: the constructor argument, and True after close()
TqdmDisabled(b) == b.disable \/ b.closed

\* _get_n / _get_total / _get_desc of a bar
_get_n(b) == b.n
_get_total(b) == b.total
_get_desc(b) == b.desc

\* the Monitor's progress after the bar b forwards its state
Forward(b) == Monitor_update(_get_n(b), _get_total(b), _get_desc(b))

\* progress after MonitoredTqdm.close() of bar b, starting from progress p
CloseForward(b, p) ==
    IF global_monitor # 0 /\ ~b.disable /\ _get_total(b) > 0
    THEN Monitor_update(_get_total(b), _get_total(b), _get_desc(b))
    ELSE p

\* the bar b after MonitoredTqdm.close(): what it forwarded last, and tqdm's
\* close() turning its disable flag on (it does nothing to a disabled bar)
Closed(b) ==
    [b EXCEPT !.closed = @ \/ ~b.disable,
              !.sent = IF global_monitor # 0 /\ ~b.disable /\ _get_total(b) > 0
                       THEN _get_total(b) ELSE @]

\* MonitoredTqdm.__init__: the target constructs a progress bar through the
\* patched symbol
MonitoredTqdm_init(r, total, desc, disable) ==
    /\ event' = NoEvent
    /\ thread[r] = "running"
    /\ tqdm_tqdm = "MonitoredTqdm"
    /\ LET b == [exists |-> TRUE, n |-> 0, total |-> total, desc |-> desc,
                 disable |-> disable, closed |-> FALSE,
                 sent |-> IF global_monitor # 0 /\ ~disable THEN 0 ELSE -1]
       IN  /\ bar' = [bar EXCEPT ![r] = b]
           /\ progress' = IF global_monitor # 0 /\ ~disable
                          THEN Monitor_update(0, _get_total(b), _get_desc(b))
                          ELSE progress
    /\ UNCHANGED <<registry_vars, exception, result, gen_vars, thread,
                   outcome, writes>>
    /\ UNCHANGED wait_vars

\* MonitoredTqdm.update(n): tqdm adds n to self.n unless disabled, then the
\* bar's state is forwarded
MonitoredTqdm_update(r, n) ==
    /\ event' = NoEvent
    /\ thread[r] = "running"
    /\ bar[r].exists
    /\ LET b == IF TqdmDisabled(bar[r]) THEN bar[r]
                ELSE [bar[r] EXCEPT !.n = @ + n]
       IN  /\ b.n \in 0..(_get_total(b) + 1)
           /\ bar' = [bar EXCEPT ![r] =
                          [b EXCEPT !.sent = IF global_monitor # 0
                                             THEN _get_n(b) ELSE @]]
           /\ progress' = IF global_monitor # 0 THEN Forward(b) ELSE progress
    /\ UNCHANGED <<registry_vars, exception, result, gen_vars, thread,
                   outcome, writes>>
    /\ UNCHANGED wait_vars

\* MonitoredTqdm.refresh
MonitoredTqdm_refresh(r) ==
    /\ event' = NoEvent
    /\ thread[r] = "running"
    /\ bar[r].exists
    /\ progress' = IF global_monitor # 0 THEN Forward(bar[r]) ELSE progress
    /\ bar' = [bar EXCEPT ![r].sent = IF global_monitor # 0
                                      THEN _get_n(bar[r]) ELSE @]
    /\ UNCHANGED <<registry_vars, exception, result, gen_vars, thread,
                   outcome, writes>>
    /\ UNCHANGED wait_vars

\* MonitoredTqdm.close; tqdm's close() does nothing to a disabled bar
MonitoredTqdm_close(r) ==
    /\ event' = NoEvent
    /\ thread[r] = "running"
    /\ bar[r].exists
    /\ progress' = CloseForward(bar[r], progress)
    /\ bar' = [bar EXCEPT ![r] = Closed(bar[r])]
    /\ UNCHANGED <<registry_vars, exception, result, gen_vars, thread,
                   outcome, writes>>
    /\ UNCHANGED wait_vars

\* MonitoredTqdm.__iter__ when the wrapped iterable raises e: tqdm's finally
\* clause closes the bar (unless it is disabled), then "except Exception"
\* stores e and re-raises it into the target
MonitoredTqdm_iter_raises(r, kind) ==
    /\ event' = NoEvent
    /\ thread[r] = "running"
    /\ bar[r].exists
    /\ writes[r] < MaxRelays
    /\ LET e == Error(kind, r)
           closing == ~TqdmDisabled(bar[r])
           p == IF closing THEN CloseForward(bar[r], progress) ELSE progress
           relayed == IsException(e) /\ global_monitor # 0
       IN  /\ bar' = [bar EXCEPT ![r] = IF closing THEN Closed(@) ELSE @]
           /\ progress' = IF relayed THEN set_error(p) ELSE p
           /\ exception' = IF relayed THEN e ELSE exception
           /\ writes' = [writes EXCEPT ![r] =
                             IF relayed /\ Recorded(r) THEN @ + 1 ELSE @]
    /\ UNCHANGED <<registry_vars, result, gen_vars, thread, outcome>>
    /\ UNCHANGED wait_vars

\* a faulty set_result: storing the result drops the stored error
TargetReturns_clears_error(r) ==
    /\ event' = NoEvent
    /\ thread[r] = "running"
    /\ outcome' = [outcome EXCEPT ![r] =
                       IF Recorded(r)
                       THEN [kind |-> "return", value |-> Value(r),
                             error |-> NoException]
                       ELSE @]
    /\ result' = Value(r)
    /\ writes' = [writes EXCEPT ![r] = IF Recorded(r) THEN @ + 1 ELSE @]
    /\ thread' = [thread EXCEPT ![r] = "dead"]
    /\ bar' = [bar EXCEPT ![r] = NoBar]
    /\ exception' = NoException
    /\ UNCHANGED <<registry_vars, progress, gen_vars>>
    /\ UNCHANGED wait_vars

\* wrapped_target, normal path: "result = target_func(...); set_result(result)";
\* the thread ends there, and the target's bar with it.  Of a run whose
\* generator was dropped nothing is recorded.
TargetReturns(r) ==
    /\ event' = NoEvent
    /\ thread[r] = "running"
    /\ outcome' = [outcome EXCEPT ![r] =
                       IF Recorded(r)
                       THEN [kind |-> "return", value |-> Value(r),
                             error |-> NoException]
                       ELSE @]
    /\ result' = Value(r)
    /\ writes' = [writes EXCEPT ![r] = IF Recorded(r) THEN @ + 1 ELSE @]
    /\ thread' = [thread EXCEPT ![r] = "dead"]
    /\ bar' = [bar EXCEPT ![r] = NoBar]
    /\ UNCHANGED <<registry_vars, progress, exception, gen_vars>>
    /\ UNCHANGED wait_vars

\* wrapped_target, error path: "except Exception as e: set_error(e)"; an
\* error that is not an Exception leaves the thread uncaught
TargetRaises(r, kind) ==
    /\ event' = NoEvent
    /\ thread[r] = "running"
    /\ LET e == Error(kind, r)
       IN  /\ outcome' = [outcome EXCEPT ![r] =
                              IF Recorded(r)
                              THEN [kind |-> "raise", value |-> NoResult,
                                    error |-> e]
                              ELSE @]
           /\ IF IsException(e)
              THEN /\ exception' = e
                   /\ progress' = set_error(progress)
                   /\ writes' = [writes EXCEPT ![r] =
                                     IF Recorded(r) THEN @ + 1 ELSE @]
              ELSE UNCHANGED <<exception, progress, writes>>
    /\ thread' = [thread EXCEPT ![r] = "dead"]
    /\ bar' = [bar EXCEPT ![r] = NoBar]
    /\ UNCHANGED <<registry_vars, result, gen_vars>>
    /\ UNCHANGED wait_vars

\* ------------------------------------------------------------- Next
Next ==
    \/ patch_tqdm
    \/ unpatch_tqdm
    \/ reset_global_monitor
    \/ \E r \in Runs : run_with_progress(r)
    \/ \E r \in Runs : GenStart(r)
    \/ \E r \in Runs : GenPoll(r)
    \/ \E r \in Runs : GenNext(r)
    \/ \E r \in Runs : GenWake(r)
    \/ \E r \in Runs : GenGetException(r)
    \/ \E r \in Runs : GenGetFinal(r)
    \/ \E r \in Runs : GenGetResult(r)
    \/ \E r \in Runs : GenClose(r)
    \/ \E r \in Runs, n \in Steps : MonitoredTqdm_update(r, n)
    \/ \E r \in Runs : MonitoredTqdm_refresh(r)
    \/ \E r \in Runs : MonitoredTqdm_close(r)
    \/ \E r \in Runs, total \in Totals, desc \in Descs, disable \in BOOLEAN :
           MonitoredTqdm_init(r, total, desc, disable)
    \/ \E r \in Runs, kind \in ErrorKinds : MonitoredTqdm_iter_raises(r, kind)
    \/ \E r \in Runs : TargetReturns(r)
    \/ \E r \in Runs, kind \in ErrorKinds : TargetRaises(r, kind)

Spec == Init /\ [][Next]_vars

\* The generator's own steps are taken once they can be, a sleep returns, and
\* a consumer that keeps requesting snapshots resumes the generator.  Nothing
\* is assumed of the worker, nor of a consumer that stops iterating.
GenStep(r) ==
    \/ GenPoll(r)
    \/ GenNext(r)
    \/ GenWake(r)
    \/ GenGetException(r)
    \/ GenGetFinal(r)
    \/ GenGetResult(r)

Fairness == \A r \in Runs : WF_vars(GenStep(r))

FairSpec == Init /\ [][Next]_vars /\ Fairness

\* the consumer may also use the convenience driver
NextWait ==
    \/ Next
    \/ \E r \in Runs : run_and_wait(r)
    \/ \E r \in Runs : run_and_wait_returns(r)

SpecWait == Init /\ [][NextWait]_vars

\* ------------------------------------------------------------ claims
Derived(p) ==
    IF p.total > 0
    THEN p.percentage[1] * p.total = 100 * p.current * p.percentage[2]
    ELSE p.percentage[1] = 0

InRange(p) == p.percentage[1] >= 0 /\ p.percentage[1] <= 100 * p.percentage[2]

\* the snapshot just produced, if it is one of the polling loop, is not
\* 'completed'
LoopSnapshotNotCompleted ==
    (event.op = "yield" /\ gen[event.run] = "yielded")
        => event.snapshot.status # "completed"

\* C1: in a run whose target returned v, no snapshot of the polling loop is
\* 'completed', and the final snapshot is 'completed' and carries result v.
C1_FinalSnapshotCarriesResult ==
    /\ LoopSnapshotNotCompleted
    /\ \A r \in Runs : outcome[r].kind = "return" =>
        /\ "completed" \notin polled[r]
        /\ (event.op = "yield" /\ event.run = r /\ gen[r] = "yielded_final") =>
               /\ event.snapshot.status = "completed"
               /\ event.snapshot.result = outcome[r].value

\* C2: in a run whose target raised e, the Monitor holds e once the worker
\* has ended, the generator raises e itself and no 'completed' snapshot is
\* produced.
C2_ErrorReachesConsumer ==
    /\ LoopSnapshotNotCompleted
    /\ \A r \in Runs : outcome[r].kind = "raise" =>
        /\ gen[r] \in {"started", "check", "sleeping", "yielded"} =>
               exception = outcome[r].error
        /\ gen[r] = "raised" => gen_raised[r] = outcome[r].error
        /\ gen[r] \notin {"get_final", "get_result", "yielded_final", "done"}
        /\ "completed" \notin polled[r]

\* C3: the first snapshot of a second run has current 0, whatever the first
\* run did; stated for the case where the second run's own worker has not
\* reported anything yet, so that only the first run can have written it.
C3_SecondRunStartsClean ==
    \A r \in Runs :
        (/\ r > 1
         /\ event.op = "yield" /\ event.run = r /\ event.first
         /\ thread[r] = "running" /\ ~bar[r].exists)
        => event.snapshot.current = 0

\* C4: once the worker of a run has ended (its target returned, or raised an
\* Exception), the Monitor holds exactly one of a result and an error, and
\* the worker made exactly one set_result/set_error call.
C4_ExactlyOneOutcome ==
    \A r \in Runs :
        (/\ thread[r] = "dead" /\ GenActive(r)
         /\ (outcome[r].kind = "return" \/ IsException(outcome[r].error)))
        => /\ (exception # NoException) # (result # NoResult)
           /\ writes[r] = 1

\* C5: at most one worker thread started by run_with_progress is alive.
C5_OneLiveWorker == Cardinality({r \in Runs : ThreadAlive(r)}) <= 1

\* C6: the percentage of the Monitor's progress, and of every snapshot taken
\* from it, is 100 * current / total of that same record when total > 0, and
\* 0 when total = 0.
C6_PercentageDerived ==
    /\ Derived(progress)
    /\ event.op = "yield" => Derived(event.snapshot)
    /\ \A r \in Runs :
           final_progress[r] # NoSnapshot => Derived(final_progress[r])

C6_Witness ==
    /\ event.op = "yield"
    /\ event.snapshot.status = "error"
    /\ event.snapshot.total > 0
    /\ event.snapshot.current > 0

\* C7: every snapshot the generator produces has a percentage within 0..100.
C7_PercentageInRange == event.op = "yield" => InRange(event.snapshot)

\* C8: right after reset() the Monitor reads current 0, total 0, percentage 0,
\* status 'ready', and holds neither an error nor a result.
C8_ResetClears ==
    event.op = "reset" =>
        /\ get_progress.current = 0
        /\ get_progress.total = 0
        /\ get_progress.percentage[1] = 0
        /\ get_progress.status = "ready"
        /\ exception = NoException
        /\ result = NoResult

C8_Witness ==
    /\ event.op = "reset"
    /\ event.exception # NoException
    /\ event.result # NoResult
    /\ event.progress.current > 0

\* C9: without a Monitor a run fails with the initialization error and
\* nothing else happens: no worker thread, no target call, no snapshot, and
\* the Monitor-less state stays as it was.
C9_NoMonitorNoRun ==
    \A r \in Runs :
        /\ global_monitor = 0 =>
               /\ thread[r] = "unstarted"
               /\ gen[r] \in {"uncalled", "created", "raised", "closed",
                              "collected"}
               /\ gen[r] = "raised" => gen_raised[r] = InitError
               /\ progress = InitialProgress
               /\ exception = NoException /\ result = NoResult
        /\ gen_raised[r] = InitError =>
               /\ gen[r] = "raised"
               /\ thread[r] = "unstarted"
               /\ polled[r] = {}
               /\ outcome[r] = NoOutcome
               /\ ~bar[r].exists

C9_Witness == \E r \in Runs : gen[r] = "raised" /\ gen_raised[r] = InitError

\* C10: however often patch_tqdm is called, one ProgressMonitor is ever
\* created, _global_monitor stays that instance, and tqdm.tqdm is bound to
\* MonitoredTqdm itself.
C10_PatchIdempotent ==
    /\ monitors_created <= 1
    /\ global_monitor = monitors_created
    /\ tqdm_tqdm \in {"original_tqdm", "MonitoredTqdm"}
    /\ event.op = "patch_tqdm" =>
           (global_monitor = 1 /\ tqdm_tqdm = "MonitoredTqdm")

C10_Witness ==
    /\ event.op = "patch_tqdm"
    /\ event.again
    /\ tqdm_tqdm = "MonitoredTqdm"
    /\ \E r \in Runs : thread[r] = "dead"

\* C11: unpatch_tqdm binds tqdm.tqdm to the original class again and leaves
\* the Monitor alone: the same instance, with the progress, the stored error
\* and the stored result it had before the call.
C11_UnpatchKeepsMonitor ==
    event.op = "unpatch_tqdm" =>
        /\ tqdm_tqdm = "original_tqdm"
        /\ global_monitor = event.global_monitor
        /\ progress = event.progress
        /\ exception = event.exception
        /\ result = event.result

C11_Witness ==
    /\ event.op = "unpatch_tqdm"
    /\ global_monitor # 0
    /\ progress.current > 0
    /\ exception # NoException
    /\ result # NoResult
    /\ tqdm_tqdm = "original_tqdm"
\* C12: a bar constructed with disable set forwards to the Monitor exactly as
\* one without: its construction forwards (0, total, desc), update(n) forwards
\* the advanced position, and close forwards (total, total, desc) when the
\* total is known.
C12_ForwardsWhenDisabled ==
    [][\A r \in Runs :
           /\ \A total \in Totals, desc \in Descs :
                  MonitoredTqdm_init(r, total, desc, TRUE)
                      => progress' = Monitor_update(0, total, desc)
           /\ \A n \in Steps :
                  (bar[r].disable /\ MonitoredTqdm_update(r, n))
                      => progress' = Monitor_update(bar[r].n + n,
                                                    bar[r].total, bar[r].desc)
           /\ (bar[r].disable /\ bar[r].total > 0 /\ MonitoredTqdm_close(r))
                  => progress' = Monitor_update(bar[r].total, bar[r].total,
                                                bar[r].desc)
      ]_vars
\* C13: while a bar is not closed, and at its close, the current it forwards
\* to the Monitor is never below the current it forwarded before.
C13_ForwardedCurrentMonotone ==
    [][\A r \in Runs :
           (/\ bar[r].exists /\ ~bar[r].closed /\ bar[r].sent # -1
            /\ \/ \E n \in Steps : MonitoredTqdm_update(r, n)
               \/ MonitoredTqdm_refresh(r)
               \/ MonitoredTqdm_close(r))
           => bar'[r].sent >= bar[r].sent
      ]_vars
\* C14: in a run whose target raised, the snapshots produced before the
\* generator raises have status 'running' or 'error'; stated for the first
\* snapshot of the run.
C14_StatusesBeforeRaise ==
    \A r \in Runs :
        outcome[r].kind = "raise" => polled[r] \subseteq {"running", "error"}
\* C15: run_and_wait on a target that returned v does not raise, and what it
\* returns is (final, v) with final a 'completed' snapshot whose result is v.
C15_RunAndWaitReturnsFinal ==
    \A r \in Runs :
        (waiting[r] /\ outcome[r].kind = "return") =>
            /\ gen[r] # "raised"
            /\ rw_returned[r].set =>
                   /\ rw_returned[r].final_progress.status = "completed"
                   /\ rw_returned[r].final_progress.result = outcome[r].value
                   /\ rw_returned[r].result = outcome[r].value
\* the progress records that whole operations leave: what reset() writes, what
\* one update(current, total, desc) writes, and either with set_error applied
WholeRecords ==
    LET written == {InitialProgress} \cup
                   {[current |-> c, total |-> t,
                     percentage |-> Percentage(c, t), desc |-> d,
                     status |-> "running"] :
                        c \in 0..MaxN, t \in Totals, d \in Descs}
    IN  written \cup {[p EXCEPT !.status = "error"] : p \in written}

\* C16: a snapshot of the polling loop is the Monitor's progress as it stands,
\* and the Monitor's progress is always a record left by whole operations:
\* current, total, percentage and desc of one update (or of reset), never a mix.
C16_SnapshotsWhole ==
    /\ progress \in WholeRecords
    /\ (event.op = "yield" /\ gen[event.run] = "yielded") =>
           (event.snapshot = progress /\ event.snapshot \in WholeRecords)

C16_Witness ==
    /\ event.op = "yield"
    /\ gen[event.run] = "yielded"
    /\ thread[event.run] = "running"
    /\ event.snapshot.status = "running"
    /\ event.snapshot.current > 0
    /\ event.snapshot.desc # ""
    /\ exception # NoException
\* C17: a snapshot of the polling loop is produced only from the position the
\* generator reaches when a sleep returns: each polling step sleeps first,
\* and no snapshot precedes the first sleep of the run.
C17_SleepBeforeSnapshot ==
    [][\A r \in Runs :
           (gen[r] # "yielded" /\ gen'[r] = "yielded") => gen[r] = "check"
      ]_vars
\* the worker thread of run r has ended and its generator has not: it has
\* neither delivered its terminal snapshot and ended, nor raised, nor been
\* closed by its consumer
Pending(r) == thread[r] = "dead" /\ GenActive(r)

\* C18: once the worker thread of a run has ended, the generator of a consumer
\* that keeps requesting ends, with its terminal snapshot delivered or with
\* the stored error raised: no generator stays pending for ever (a worker
\* does not come back to life, so a pending generator stops being pending
\* only by ending).  And an ended generator stays ended.
C18_SequenceEnds ==
    /\ \A r \in Runs : []<>(~Pending(r))
    /\ [][\A r \in Runs :
              gen[r] \in {"done", "raised"}
                  => gen'[r] \in {gen[r], "collected"}
         ]_vars

C18_Witness ==
    \E r \in Runs :
        /\ gen[r] = "done"
        /\ thread[r] = "dead"
        /\ polled[r] # {}
        /\ outcome[r].kind = "return"
\* C19: in a run where an iteration error e was relayed by the bar and the
\* target then returned normally, the Monitor holds e once the worker has
\* ended, the generator raises e, and no 'completed' snapshot (so no result)
\* is delivered.
C19_RelayedErrorWins ==
    \A r \in Runs :
        (outcome[r].kind = "return" /\ writes[r] >= 2) =>
            /\ gen[r] \in {"started", "check", "sleeping", "yielded"} =>
                   exception = Error("ValueError", r)
            /\ gen[r] = "raised" => gen_raised[r] = Error("ValueError", r)
            /\ gen[r] \notin {"get_final", "get_result", "yielded_final",
                               "done"}
\* C20: the Monitor's own status is only ever 'ready', 'running' or 'error';
\* the steps that write 'completed' and the result into the generator's final
\* snapshot leave the Monitor's progress, error and result as they were.
C20_CompletedOnlyInCopy ==
    /\ [](progress.status \in {"ready", "running", "error"})
    /\ [][\A r \in Runs :
              (final_progress'[r] # final_progress[r]
               \/ (gen[r] = "get_result" /\ gen'[r] = "yielded_final"))
                  => UNCHANGED monitor_vars
         ]_vars

C20_Witness ==
    \E r \in Runs :
        /\ gen[r] = "yielded_final"
        /\ event.op = "yield"
        /\ event.snapshot.status = "completed"
        /\ event.snapshot.result # NoResult
        /\ progress.status = "running"
        /\ progress.current = event.snapshot.current
\* C21: a stored error stays stored until reset: a step that is not a reset
\* leaves the stored error as it is, or replaces it by another error stored by
\* set_error; update and set_result do not touch it.  The status 'error' is
\* only ever seen with an error stored.
C21_ErrorPersists ==
    /\ [](progress.status = "error" => exception # NoException)
    /\ [][exception # NoException =>
              \/ exception' = exception
              \/ event'.op = "reset"
              \/ (exception' # NoException /\ progress'.status = "error")
         ]_vars

\* an error is stored, and a later update has put the status back to 'running'
\* and a later set_result has stored a result
C21_Witness ==
    /\ exception # NoException
    /\ progress.status = "running"
    /\ progress.current > 0
    /\ result # NoResult
====
